---- MODULE Spec2Model ----
(***************************************************************************)
(* A model of src/index.ts, the relay between an OpenAI-style              *)
(* chat-completions API and the Gemini REST API.                           *)
(*                                                                         *)
(* Strings are sequences of code points, so that String.replace,           *)
(* toLowerCase, Array.join, UTF-8 encoding and base64 are computed, not    *)
(* assumed.  A JSON value is a record [t |-> type, s |-> payload] whose    *)
(* payload is a sequence of naturals: the code points of a string, the     *)
(* elements of an array of numbers, <<n>> for a number, <<0>> / <<1>> for  *)
(* false / true, and <<>> for undefined and null.                          *)
(***************************************************************************)
EXTENDS Naturals, Sequences, FiniteSets, TLC

VARIABLES
    GOOGLE_API_KEY,   \* the module constant of line 11, read from the environment
    pc,               \* pc[r]: where the handler of request r stands
    route,            \* route[r]: "models" (GET /v1/models) or "chat" (POST /v1/chat/completions)
    body,             \* body[r]: req.body of a chat request
    locals,           \* locals[r]: model and contents held across the await of line 83
    inflight,         \* inflight[r]: how the axios promise of request r settled
    responses,        \* responses[r]: what was written to res, in order
    log,              \* log[r]: the console.error lines written while handling r
    upstreamCalls     \* every axios.get / axios.post issued, in order

vars == <<GOOGLE_API_KEY, pc, route, body, locals, inflight, responses, log, upstreamCalls>>

----------------------------------------------------------------------------
(* Bounds of the model. *)

MaxRequests == 2
MaxBytes == 3
MaxCandidates == 2
MaxModels == 2

Requests == 1..MaxRequests

----------------------------------------------------------------------------
(* String literals of the source, as code points. *)

\* "gemini-1.5-flash"
DEFAULT_MODEL == <<103, 101, 109, 105, 110, 105, 45, 49, 46, 53, 45, 102, 108, 97, 115, 104>>
\* "No prompt provided"
DEFAULT_PROMPT == <<78, 111, 32, 112, 114, 111, 109, 112, 116, 32, 112, 114, 111, 118, 105, 100, 101, 100>>
\* "text/plain"
DEFAULT_MIME_TYPE == <<116, 101, 120, 116, 47, 112, 108, 97, 105, 110>>
\* "models/"
MODELS_PREFIX == <<109, 111, 100, 101, 108, 115, 47>>
\* "chatcmpl-"
ID_PREFIX == <<99, 104, 97, 116, 99, 109, 112, 108, 45>>

SYSTEM_FINGERPRINT == "fp_3aa7262c27"
MSG_MODELS_FAILED == "Failed to fetch Gemini models"
MSG_GENERATE_FAILED == "Failed to generate response"

----------------------------------------------------------------------------
(* JSON values and the JavaScript operations the handlers apply to them. *)

Undefined == [t |-> "undefined", s |-> <<>>]
Null == [t |-> "null", s |-> <<>>]
Str(cps) == [t |-> "string", s |-> cps]
Num(n) == [t |-> "number", s |-> <<n>>]
Bool(b) == [t |-> "boolean", s |-> <<IF b THEN 1 ELSE 0>>]
Arr(elems) == [t |-> "array", s |-> elems]

\* ToBoolean: what `if (v)` and `v || d` test.
Truthy(v) ==
    CASE v.t = "undefined" -> FALSE
      [] v.t = "null" -> FALSE
      [] v.t = "string" -> v.s # <<>>
      [] v.t = "number" -> v.s[1] # 0
      [] v.t = "boolean" -> v.s[1] = 1
      [] OTHER -> TRUE

\* v ?? d in place of v || d: only undefined and null take the default.
OrElseNullish(v, d) == IF v.t \in {"undefined", "null"} THEN d ELSE v

\* v || d
OrElse(v, d) == IF Truthy(v) THEN v ELSE d

\* The UTF-8 bytes of one code point of the Basic Multilingual Plane.
Utf8Char(cp) ==
    IF cp < 128 THEN <<cp>>
    ELSE IF cp < 2048 THEN <<192 + (cp \div 64), 128 + (cp % 64)>>
    ELSE <<224 + (cp \div 4096), 128 + ((cp \div 64) % 64), 128 + (cp % 64)>>

RECURSIVE Utf8(_)
Utf8(cps) == IF cps = <<>> THEN <<>> ELSE Utf8Char(Head(cps)) \o Utf8(Tail(cps))

\* Buffer.from(v) accepts a string (UTF-8 encoded) or an array (each element
\* taken modulo 256) and throws a TypeError on a number or a boolean.
BufferFromThrows(v) == v.t \notin {"string", "array"}

BufferFrom(v) ==
    IF v.t = "string" THEN Utf8(v.s)
    ELSE [i \in 1..Len(v.s) |-> v.s[i] % 256]

\* The character of the base64 alphabet for a 6-bit value.
Base64Char(n) ==
    IF n < 26 THEN 65 + n
    ELSE IF n < 52 THEN 97 + (n - 26)
    ELSE IF n < 62 THEN 48 + (n - 52)
    ELSE IF n = 62 THEN 43
    ELSE 47

\* "=": the padding character.
Base64Pad == <<61>>

\* buffer.toString("base64")
RECURSIVE Base64(_)
Base64(bytes) ==
    IF Len(bytes) = 0 THEN <<>>
    ELSE IF Len(bytes) = 1 THEN
        <<Base64Char(bytes[1] \div 4), Base64Char((bytes[1] % 4) * 16)>>
            \o Base64Pad \o Base64Pad
    ELSE IF Len(bytes) = 2 THEN
        <<Base64Char(bytes[1] \div 4),
          Base64Char((bytes[1] % 4) * 16 + (bytes[2] \div 16)),
          Base64Char((bytes[2] % 16) * 4)>> \o Base64Pad
    ELSE
        <<Base64Char(bytes[1] \div 4),
          Base64Char((bytes[1] % 4) * 16 + (bytes[2] \div 16)),
          Base64Char((bytes[2] % 16) * 4 + (bytes[3] \div 64)),
          Base64Char(bytes[3] % 64)>> \o Base64(SubSeq(bytes, 4, Len(bytes)))

\* Does pat occur in s at position i?
OccursAt(s, pat, i) ==
    /\ i + Len(pat) - 1 <= Len(s)
    /\ SubSeq(s, i, i + Len(pat) - 1) = pat

\* s.indexOf(pat), 1-based; 0 when pat does not occur.
IndexOf(s, pat) ==
    IF \E i \in 1..Len(s) : OccursAt(s, pat, i)
    THEN CHOOSE i \in 1..Len(s) :
            /\ OccursAt(s, pat, i)
            /\ \A j \in 1..(i - 1) : ~OccursAt(s, pat, j)
    ELSE 0

\* s.replace(pat, ""), pat a string: the FIRST occurrence of pat is removed.
ReplaceFirst(s, pat) ==
    LET i == IndexOf(s, pat) IN
    IF i = 0 THEN s
    ELSE SubSeq(s, 1, i - 1) \o SubSeq(s, i + Len(pat), Len(s))

\* s.toLowerCase() on ASCII.
LowerChar(c) == IF c >= 65 /\ c <= 90 THEN c + 32 ELSE c

\* A toLowerCase that is forgotten.
ToLowerCaseIdentity(s) == s

ToLowerCase(s) == [i \in 1..Len(s) |-> LowerChar(s[i])]

\* parts.map(part => part.text).join(""): join renders undefined and null as "".
RECURSIVE JoinTexts(_)
JoinTexts(parts) ==
    IF parts = <<>> THEN <<>>
    ELSE (IF Head(parts).text.t = "string" THEN Head(parts).text.s ELSE <<>>)
            \o JoinTexts(Tail(parts))

----------------------------------------------------------------------------
(* generateGeminiResponse, lines 58-110: the outbound request. *)

NoInline == [present |-> FALSE, mime_type |-> Undefined, data |-> <<>>]

\* { text: prompt }
TextPart(prompt) == [text |-> prompt, inline_data |-> NoInline]

\* { inline_data: { mime_type, data } }
InlinePart(mimeType, data) ==
    [text |-> Undefined,
     inline_data |-> [present |-> TRUE, mime_type |-> mimeType, data |-> data]]

\* data.model || "gemini-1.5-flash"
ResolveModel(data) == OrElse(data.model, Str(DEFAULT_MODEL))

\* data.prompt || "No prompt provided"
ResolvePrompt(data) == OrElse(data.prompt, Str(DEFAULT_PROMPT))

\* data.mimeType || "text/plain"
ResolveMimeType(data) == OrElse(data.mimeType, Str(DEFAULT_MIME_TYPE))

\* if (inlineData): the test that guards the push of the second part.
HasInlineData(data) == Truthy(data.inlineData)

\* Lines 74-81 throw when Buffer.from rejects a truthy inlineData.
BuildThrows(data) == HasInlineData(data) /\ BufferFromThrows(data.inlineData)

\* A build that pushes the inline part whether or not inlineData is given.
BuildContentsAlwaysPushing(data) ==
    << [parts |->
          <<TextPart(ResolvePrompt(data)),
            InlinePart(ResolveMimeType(data),
                       IF BufferFromThrows(data.inlineData) THEN <<>>
                       ELSE Base64(BufferFrom(data.inlineData)))>>] >>

\* Lines 64-81: one content block; the inline part is pushed onto its parts.
BuildContents(data) ==
    << [parts |->
          <<TextPart(ResolvePrompt(data))>> \o
          (IF HasInlineData(data)
           THEN <<InlinePart(ResolveMimeType(data),
                             Base64(BufferFrom(data.inlineData)))>>
           ELSE <<>>)] >>

----------------------------------------------------------------------------
(* generateGeminiResponse, lines 85-109: the reshaped response. *)

\* Evaluating the object literal of lines 86-107 throws a TypeError when a
\* property of undefined is read or toLowerCase is called on a non-string.
TransformThrows(data) ==
    \/ ~data.candidates.present
    \/ \E i \in 1..Len(data.candidates.items) :
          \/ ~data.candidates.items[i].content.present
          \/ data.candidates.items[i].finishReason.t # "string"
    \/ ~data.usageMetadata.present

\* One element of choices, lines 91-100.
Choice(candidate, index) ==
    [index |-> index,
     message |-> [role |-> "assistant",
                  content |-> JoinTexts(candidate.content.parts),
                  refusal |-> Null],
     logprobs |-> Null,
     finish_reason |-> ToLowerCase(candidate.finishReason.s)]

\* geminiResponse.candidates.map(...): index counts from 0.
Choices(candidates) == [i \in 1..Len(candidates) |-> Choice(candidates[i], i - 1)]

\* usage, lines 101-105.
Usage(usageMetadata) ==
    [prompt_tokens |-> usageMetadata.promptTokenCount,
     completion_tokens |-> usageMetadata.candidatesTokenCount,
     total_tokens |-> usageMetadata.totalTokenCount]

\* transformedResponse, lines 86-107; token is generateUniqueId() and nowMs
\* is Date.now().
Transform(model, data, token, nowMs) ==
    [id |-> ID_PREFIX \o token,
     object |-> "chat.completion",
     created |-> nowMs \div 1000,
     model |-> model,
     choices |-> Choices(data.candidates.items),
     usage |-> Usage(data.usageMetadata),
     system_fingerprint |-> SYSTEM_FINGERPRINT]

----------------------------------------------------------------------------
(* GET /v1/models, lines 35-39. *)

\* models.models.map(...) throws when models is missing or a name is not a string.
ModelNamesThrows(data) ==
    \/ ~data.models.present
    \/ \E i \in 1..Len(data.models.items) : data.models.items[i].name.t # "string"

\* model.name.replace("models/", "")
ModelNames(data) ==
    [i \in 1..Len(data.models.items) |->
        ReplaceFirst(data.models.items[i].name.s, MODELS_PREFIX)]

----------------------------------------------------------------------------
(* Errors, promise outcomes, responses and log lines. *)

\* new Error("GOOGLE_API_KEY environment variable is not set"), lines 115 and 138
KeyNotSetError == [name |-> "Error", message |-> "GOOGLE_API_KEY environment variable is not set"]
\* new Error("Failed to generate text"), line 131
GenerateTextError == [name |-> "Error", message |-> "Failed to generate text"]
\* new Error("Failed to fetch Gemini models"), line 148
FetchModelsError == [name |-> "Error", message |-> MSG_MODELS_FAILED]
\* What the runtime throws on a read of a property of undefined, on a call
\* of a missing method and on Buffer.from of a number.
TypeError == [name |-> "TypeError", message |-> "not an object, a function or a buffer source"]
\* What axios rejects with: a transport failure or a status outside 2xx.
AxiosError(detail) == [name |-> "AxiosError", message |-> detail]

NoError == [name |-> "", message |-> ""]
NoUsage == [present |-> FALSE, promptTokenCount |-> 0, candidatesTokenCount |-> 0, totalTokenCount |-> 0]
NoData == [models |-> [present |-> FALSE, items |-> <<>>],
           candidates |-> [present |-> FALSE, items |-> <<>>],
           usageMetadata |-> NoUsage]

Pending == [kind |-> "pending", error |-> NoError, data |-> NoData]
Rejected(error) == [kind |-> "rejected", error |-> error, data |-> NoData]
Fulfilled(data) == [kind |-> "fulfilled", error |-> NoError, data |-> data]

NoBody == [model |-> Undefined, prompt |-> Undefined, mimeType |-> Undefined, inlineData |-> Undefined]
NoLocals == [model |-> Undefined, contents |-> <<>>]

\* res.status(500).json({ message })
ErrorResponse(message) == [status |-> 500, body |-> [type |-> "error", message |-> message]]
\* res.json(modelNames)
ModelsResponse(names) == [status |-> 200, body |-> [type |-> "models", names |-> names]]
\* res.json(response)
CompletionResponse(completion) ==
    [status |-> 200, body |-> [type |-> "completion", completion |-> completion]]

\* console.error(label, error)
LogLine(label, error) == [label |-> label, error |-> error]

LOG_MODELS == "Error fetching models:"
LOG_TEXT == "Error generating text:"
LOG_RESPONSE == "Error generating response:"

----------------------------------------------------------------------------
(* The state machine. *)

Keys == {<<>>, <<107, 49>>}

Init ==
    /\ GOOGLE_API_KEY \in Keys
    /\ pc = [r \in Requests |-> "idle"]
    /\ route = [r \in Requests |-> "none"]
    /\ body = [r \in Requests |-> NoBody]
    /\ locals = [r \in Requests |-> NoLocals]
    /\ inflight = [r \in Requests |-> Pending]
    /\ responses = [r \in Requests |-> <<>>]
    /\ log = [r \in Requests |-> <<>>]
    /\ upstreamCalls = <<>>

\* !GOOGLE_API_KEY with the check dropped.
KeyMissingUnchecked == FALSE

\* !GOOGLE_API_KEY, lines 114 and 137
KeyMissing == GOOGLE_API_KEY = <<>>

\* A catch block that logs the error and sends nothing.
CatchAtRouteSilent(r, logged, label, error, message) ==
    /\ log' = [log EXCEPT ![r] = @ \o logged \o <<LogLine(label, error)>>]
    /\ pc' = [pc EXCEPT ![r] = "done"]
    /\ UNCHANGED responses

\* A catch block that answers with the message of the error it caught.
CatchAtRouteLeaking(r, logged, label, error, message) ==
    /\ log' = [log EXCEPT ![r] = @ \o logged \o <<LogLine(label, error)>>]
    /\ responses' = [responses EXCEPT ![r] = Append(@, ErrorResponse(error.message))]
    /\ pc' = [pc EXCEPT ![r] = "done"]

\* The catch block of a route handler, lines 40-43 and 51-54, entered with
\* the lines the inner functions logged on the way.
CatchAtRoute(r, logged, label, error, message) ==
    /\ log' = [log EXCEPT ![r] = @ \o logged \o <<LogLine(label, error)>>]
    /\ responses' = [responses EXCEPT ![r] = Append(@, ErrorResponse(message))]
    /\ pc' = [pc EXCEPT ![r] = "done"]

\* res.json(payload) at the end of a try block, lines 39 and 50.
SendJson(r, response) ==
    /\ responses' = [responses EXCEPT ![r] = Append(@, response)]
    /\ pc' = [pc EXCEPT ![r] = "done"]
    /\ UNCHANGED log

\* axios.get(url), line 142
GetCall(r) ==
    [method |-> "GET", by |-> r, key |-> GOOGLE_API_KEY, model |-> Undefined, contents |-> <<>>]

\* axios.post(url, { contents }, ...), line 119
PostCall(r, model, contents) ==
    [method |-> "POST", by |-> r, key |-> GOOGLE_API_KEY, model |-> model, contents |-> contents]

\* GET /v1/models up to the await of axios.get: lines 33-35 and 136-144.
ReceiveModels(r) ==
    /\ pc[r] = "idle"
    /\ route' = [route EXCEPT ![r] = "models"]
    /\ IF KeyMissing
       THEN /\ CatchAtRoute(r, <<>>, LOG_MODELS, KeyNotSetError, MSG_MODELS_FAILED)
            /\ UNCHANGED upstreamCalls
       ELSE /\ upstreamCalls' = Append(upstreamCalls, GetCall(r))
            /\ pc' = [pc EXCEPT ![r] = "awaiting"]
            /\ UNCHANGED <<responses, log>>
    /\ UNCHANGED <<GOOGLE_API_KEY, body, locals, inflight>>

\* A handler that keeps model and contents in one place shared by all
\* requests instead of in locals of the call.
ReceiveCompletionSharedContents(r, data) ==
    /\ pc[r] = "idle"
    /\ route' = [route EXCEPT ![r] = "chat"]
    /\ body' = [body EXCEPT ![r] = data]
    /\ IF BuildThrows(data)
       THEN /\ CatchAtRoute(r, <<>>, LOG_RESPONSE, TypeError, MSG_GENERATE_FAILED)
            /\ UNCHANGED <<upstreamCalls, locals>>
       ELSE IF KeyMissing
       THEN /\ CatchAtRoute(r, <<>>, LOG_RESPONSE, KeyNotSetError, MSG_GENERATE_FAILED)
            /\ UNCHANGED <<upstreamCalls, locals>>
       ELSE /\ locals' = [q \in Requests |->
                            [model |-> ResolveModel(data), contents |-> BuildContents(data)]]
            /\ upstreamCalls' =
                  Append(upstreamCalls, PostCall(r, ResolveModel(data), BuildContents(data)))
            /\ pc' = [pc EXCEPT ![r] = "awaiting"]
            /\ UNCHANGED <<responses, log>>
    /\ UNCHANGED <<GOOGLE_API_KEY, inflight>>

\* POST /v1/chat/completions up to the await of axios.post: lines 46-49,
\* 58-83 and 113-127.
ReceiveCompletion(r, data) ==
    /\ pc[r] = "idle"
    /\ route' = [route EXCEPT ![r] = "chat"]
    /\ body' = [body EXCEPT ![r] = data]
    /\ IF BuildThrows(data)
       THEN /\ CatchAtRoute(r, <<>>, LOG_RESPONSE, TypeError, MSG_GENERATE_FAILED)
            /\ UNCHANGED <<upstreamCalls, locals>>
       ELSE IF KeyMissing
       THEN /\ CatchAtRoute(r, <<>>, LOG_RESPONSE, KeyNotSetError, MSG_GENERATE_FAILED)
            /\ UNCHANGED <<upstreamCalls, locals>>
       ELSE /\ locals' = [locals EXCEPT ![r] =
                            [model |-> ResolveModel(data), contents |-> BuildContents(data)]]
            /\ upstreamCalls' =
                  Append(upstreamCalls, PostCall(r, ResolveModel(data), BuildContents(data)))
            /\ pc' = [pc EXCEPT ![r] = "awaiting"]
            /\ UNCHANGED <<responses, log>>
    /\ UNCHANGED <<GOOGLE_API_KEY, inflight>>

\* The upstream provider answers, or the transport fails: the promise of
\* axios.get / axios.post settles.
UpstreamSettles(r, outcome) ==
    /\ pc[r] = "awaiting"
    /\ inflight' = [inflight EXCEPT ![r] = outcome]
    /\ pc' = [pc EXCEPT ![r] = "settled"]
    /\ UNCHANGED <<GOOGLE_API_KEY, route, body, locals, responses, log, upstreamCalls>>

\* GET /v1/models after the await: lines 145-149 and 36-43.
ResumeModels(r) ==
    /\ pc[r] = "settled"
    /\ route[r] = "models"
    /\ IF inflight[r].kind = "rejected"
       THEN CatchAtRoute(r, <<LogLine(LOG_MODELS, inflight[r].error)>>,
                         LOG_MODELS, FetchModelsError, MSG_MODELS_FAILED)
       ELSE IF ModelNamesThrows(inflight[r].data)
       THEN CatchAtRoute(r, <<>>, LOG_MODELS, TypeError, MSG_MODELS_FAILED)
       ELSE SendJson(r, ModelsResponse(ModelNames(inflight[r].data)))
    /\ UNCHANGED <<GOOGLE_API_KEY, route, body, locals, inflight, upstreamCalls>>

\* A handler that posts again when the call was rejected.
ResumeCompletionRetrying(r, token, nowMs) ==
    /\ pc[r] = "settled"
    /\ route[r] = "chat"
    /\ IF inflight[r].kind = "rejected"
       THEN /\ upstreamCalls' =
                  Append(upstreamCalls, PostCall(r, locals[r].model, locals[r].contents))
            /\ pc' = [pc EXCEPT ![r] = "awaiting"]
            /\ UNCHANGED <<responses, log>>
       ELSE IF TransformThrows(inflight[r].data)
       THEN /\ CatchAtRoute(r, <<>>, LOG_RESPONSE, TypeError, MSG_GENERATE_FAILED)
            /\ UNCHANGED upstreamCalls
       ELSE /\ SendJson(r, CompletionResponse(
                            Transform(locals[r].model, inflight[r].data, token, nowMs)))
            /\ UNCHANGED upstreamCalls
    /\ UNCHANGED <<GOOGLE_API_KEY, route, body, locals, inflight>>

\* POST /v1/chat/completions after the await: lines 128-132, 85-109 and 50-54.
ResumeCompletion(r, token, nowMs) ==
    /\ pc[r] = "settled"
    /\ route[r] = "chat"
    /\ IF inflight[r].kind = "rejected"
       THEN CatchAtRoute(r, <<LogLine(LOG_TEXT, inflight[r].error)>>,
                         LOG_RESPONSE, GenerateTextError, MSG_GENERATE_FAILED)
       ELSE IF TransformThrows(inflight[r].data)
       THEN CatchAtRoute(r, <<>>, LOG_RESPONSE, TypeError, MSG_GENERATE_FAILED)
       ELSE SendJson(r, CompletionResponse(
                            Transform(locals[r].model, inflight[r].data, token, nowMs)))
    /\ UNCHANGED <<GOOGLE_API_KEY, route, body, locals, inflight, upstreamCalls>>

----------------------------------------------------------------------------
(* The inputs: request bodies, upstream answers, random tokens, clock. *)

\* All sequences over S of length at most n.
SeqsUpTo(S, n) == UNION {[1..k -> S] : k \in 0..n}

\* generateUniqueId(), line 154: "k3x9q" and "a1b2c".
Tokens == {<<107, 51, 120, 57, 113>>, <<97, 49, 98, 50, 99>>}
\* Date.now(), in milliseconds.
ClockMs == {1999, 2000}

STR_HELLO == Str(<<72, 101, 108, 108, 111>>)                       \* "Hello"
STR_GEMINI_PRO == Str(<<103, 101, 109, 105, 110, 105, 45, 112, 114, 111>>) \* "gemini-pro"
STR_IMAGE_PNG == Str(<<105, 109, 97, 103, 101, 47, 112, 110, 103>>)  \* "image/png"
STR_HI == Str(<<104, 105>>)                                        \* "hi"
STR_E_ACUTE == Str(<<233>>)                                        \* "é"
STR_EMPTY == Str(<<>>)                                             \* ""

\* Elements of a JSON array given as inlineData; 511 is out of byte range.
ByteValues == {0, 77, 511}

InlineDataValues ==
    {Undefined, Null, STR_EMPTY, STR_HI, STR_E_ACUTE, Num(0), Num(5), Bool(FALSE), Bool(TRUE)}
        \cup {Arr(b) : b \in SeqsUpTo(ByteValues, MaxBytes)}

\* Every request body of the single-request specification.
AllBodies ==
    [model : {Undefined, Null, STR_EMPTY, STR_GEMINI_PRO},
     prompt : {Undefined, Null, STR_EMPTY, STR_HELLO},
     mimeType : {Undefined, Null, STR_EMPTY, STR_IMAGE_PNG},
     inlineData : InlineDataValues]

\* {prompt: "Hello"}
HelloBody == [NoBody EXCEPT !.prompt = STR_HELLO]
\* {model: "gemini-pro", prompt: "Hello", mimeType: "image/png", inlineData: "hi"}
FullBody == [model |-> STR_GEMINI_PRO, prompt |-> STR_HELLO,
             mimeType |-> STR_IMAGE_PNG, inlineData |-> STR_HI]
\* {inlineData: 5}
NumberBody == [NoBody EXCEPT !.inlineData = Num(5)]

FewBodies == {HelloBody, FullBody, NumberBody}

\* Parts of an upstream candidate: "Hel", "lo" and a part with no text.
PART_HEL == [text |-> Str(<<72, 101, 108>>)]
PART_LO == [text |-> Str(<<108, 111>>)]
PART_NO_TEXT == [text |-> Undefined]

PartLists ==
    {<<>>, <<PART_HEL>>, <<PART_HEL, PART_LO>>, <<PART_LO, PART_HEL>>,
     <<PART_HEL, PART_NO_TEXT, PART_LO>>}

\* "STOP", "MAX_TOKENS", or no finishReason.
FinishReasons ==
    {Undefined, Str(<<83, 84, 79, 80>>), Str(<<77, 65, 88, 95, 84, 79, 75, 69, 78, 83>>)}

CandidateValues ==
    {[content |-> [present |-> TRUE, parts |-> p], finishReason |-> f] :
        p \in PartLists, f \in FinishReasons}
    \cup {[content |-> [present |-> FALSE, parts |-> <<>>],
           finishReason |-> Str(<<83, 84, 79, 80>>)]}

SomeUsage == [present |-> TRUE, promptTokenCount |-> 7,
              candidatesTokenCount |-> 5, totalTokenCount |-> 12]

GenerateData(candidates, usage) ==
    [NoData EXCEPT !.candidates = candidates, !.usageMetadata = usage]

\* Every 2xx answer to generateContent of the single-request specification.
AllGenerateData ==
    {GenerateData([present |-> TRUE, items |-> c], u) :
        c \in SeqsUpTo(CandidateValues, MaxCandidates), u \in {NoUsage, SomeUsage}}
    \cup {GenerateData([present |-> FALSE, items |-> <<>>], SomeUsage)}

\* Names of upstream models: "models/gemini-pro", "gemini-pro",
\* "models/models/x", "x/models/y", or an entry with no name.
ModelEntries ==
    {[name |-> Str(MODELS_PREFIX \o STR_GEMINI_PRO.s)],
     [name |-> STR_GEMINI_PRO],
     [name |-> Str(MODELS_PREFIX \o MODELS_PREFIX \o <<120>>)],
     [name |-> Str(<<120, 47>> \o MODELS_PREFIX \o <<121>>)],
     [name |-> Undefined]}

ModelsData(entries) == [NoData EXCEPT !.models = [present |-> TRUE, items |-> entries]]

\* Every 2xx answer to the model list of the single-request specification.
AllModelsData ==
    {ModelsData(m) : m \in SeqsUpTo(ModelEntries, MaxModels)} \cup {NoData}

\* How a call can fail: the connection is reset, or a status outside 2xx.
Failures == {Rejected(AxiosError("ECONNRESET")), Rejected(AxiosError("status 503"))}

GoodCandidate ==
    [content |-> [present |-> TRUE, parts |-> <<PART_HEL, PART_LO>>],
     finishReason |-> Str(<<83, 84, 79, 80>>)]

FewOutcomes(rt) ==
    Failures \cup
    (IF rt = "models"
     THEN {Fulfilled(ModelsData(<<[name |-> Str(MODELS_PREFIX \o STR_GEMINI_PRO.s)]>>)),
           Fulfilled(NoData)}
     ELSE {Fulfilled(GenerateData([present |-> TRUE, items |-> <<GoodCandidate>>], SomeUsage)),
           Fulfilled(NoData)})

AllOutcomes(rt) ==
    Failures \cup
    (IF rt = "models"
     THEN {Fulfilled(d) : d \in AllModelsData}
     ELSE {Fulfilled(d) : d \in AllGenerateData})

----------------------------------------------------------------------------
(* The specifications. *)

\* The steps of the handler of request r once its upstream call has settled.
Resume(r) ==
    \/ ResumeModels(r)
    \/ \E token \in Tokens, nowMs \in ClockMs : ResumeCompletion(r, token, nowMs)

\* Concurrent requests.
Settle(r) == pc[r] = "awaiting" /\ \E o \in FewOutcomes(route[r]) : UpstreamSettles(r, o)

Next ==
    \E r \in Requests :
        \/ ReceiveModels(r)
        \/ \E data \in FewBodies : ReceiveCompletion(r, data)
        \/ Settle(r)
        \/ Resume(r)

Spec == Init /\ [][Next]_vars

\* The promise of an issued call settles and the event loop runs the
\* continuation of a settled await.
FairSpec == Spec /\ \A r \in Requests : WF_vars(Settle(r)) /\ WF_vars(Resume(r))

\* One request, every request body.
NextRequest ==
    \/ ReceiveModels(1)
    \/ pc[1] = "idle" /\ \E data \in AllBodies : ReceiveCompletion(1, data)
    \/ Settle(1)
    \/ Resume(1)

SpecRequest == Init /\ [][NextRequest]_vars

\* One request, every upstream answer.
NextAnswer ==
    \/ ReceiveModels(1)
    \/ ReceiveCompletion(1, HelloBody)
    \/ pc[1] = "awaiting" /\ \E o \in AllOutcomes(route[1]) : UpstreamSettles(1, o)
    \/ Resume(1)

SpecAnswer == Init /\ [][NextAnswer]_vars

----------------------------------------------------------------------------
(* Vocabulary of the properties. *)

Handled(r) == pc[r] # "idle"
Done(r) == pc[r] = "done"

\* The upstream calls issued on behalf of request r.
CallsBy(r) == SelectSeq(upstreamCalls, LAMBDA c : c.by = r)

\* The fixed message of each endpoint.
FixedMessage(rt) == IF rt = "models" THEN MSG_MODELS_FAILED ELSE MSG_GENERATE_FAILED

\* An upstream answer that lacks what the endpoint reads from it.
Malformed(rt, data) ==
    IF rt = "models"
    THEN \/ ~data.models.present
         \/ \E i \in 1..Len(data.models.items) : data.models.items[i].name = Undefined
    ELSE \/ ~data.candidates.present
         \/ ~data.usageMetadata.present
         \/ \E i \in 1..Len(data.candidates.items) :
               \/ ~data.candidates.items[i].content.present
               \/ data.candidates.items[i].finishReason = Undefined

\* The request body cannot be turned into an upstream request.
Unbuildable(r) ==
    /\ route[r] = "chat"
    /\ body[r].inlineData.t \in {"number", "boolean"}
    /\ body[r].inlineData.s # <<0>>

\* Something went wrong while request r was handled.
Failed(r) ==
    \/ Unbuildable(r)
    \/ GOOGLE_API_KEY = <<>>
    \/ inflight[r].kind = "rejected"
    \/ inflight[r].kind = "fulfilled" /\ Malformed(route[r], inflight[r].data)

\* The first error raised while request r was handled.
Cause(r) ==
    IF Unbuildable(r) THEN TypeError
    ELSE IF GOOGLE_API_KEY = <<>> THEN KeyNotSetError
    ELSE IF inflight[r].kind = "rejected" THEN inflight[r].error
    ELSE TypeError

----------------------------------------------------------------------------
(* C1 *)

\* C1: with an empty API key no upstream GET or POST is ever issued, and
\* every request handled so far, of either endpoint, has already failed.
C1_NoCallWithoutKey ==
    GOOGLE_API_KEY = <<>> =>
        /\ upstreamCalls = <<>>
        /\ \A r \in Requests :
              Handled(r) => /\ Done(r)
                            /\ responses[r] = <<ErrorResponse(FixedMessage(route[r]))>>

\* Both endpoints have been asked with an empty key.
C1_Witness ==
    /\ GOOGLE_API_KEY = <<>>
    /\ \E r1, r2 \in Requests :
          /\ route[r1] = "models" /\ Done(r1)
          /\ route[r2] = "chat" /\ Done(r2) /\ ~Unbuildable(r2)

----------------------------------------------------------------------------
(* C2 *)

\* The payload of a 200 is complete: one name per upstream model, or a
\* completion with one choice per candidate and the three usage counts.
FullPayload(r) ==
    LET resp == responses[r][1] IN
    /\ resp.status = 200
    /\ IF route[r] = "models"
       THEN /\ resp.body.type = "models"
            /\ Len(resp.body.names) = Len(inflight[r].data.models.items)
       ELSE /\ resp.body.type = "completion"
            /\ Len(resp.body.completion.choices) = Len(inflight[r].data.candidates.items)
            /\ resp.body.completion.usage =
                  [prompt_tokens |-> inflight[r].data.usageMetadata.promptTokenCount,
                   completion_tokens |-> inflight[r].data.usageMetadata.candidatesTokenCount,
                   total_tokens |-> inflight[r].data.usageMetadata.totalTokenCount]

C2_OneResponse ==
    \A r \in Requests :
        /\ Len(responses[r]) = (IF Done(r) THEN 1 ELSE 0)
        /\ Done(r) =>
              IF Failed(r)
              THEN responses[r][1] = ErrorResponse(FixedMessage(route[r]))
              ELSE FullPayload(r)

----------------------------------------------------------------------------
(* C3 *)

\* C3: the answer to a failed request is the endpoint's fixed 500 whatever
\* the reason, so two failed requests of one endpoint are answered alike;
\* the reason is the first error of the request's log lines.
C3_FailureReasonHidden ==
    /\ \A r \in Requests :
          (Done(r) /\ Failed(r)) =>
              /\ responses[r] = <<ErrorResponse(FixedMessage(route[r]))>>
              /\ log[r] # <<>>
              /\ log[r][1].error = Cause(r)
    /\ \A r1, r2 \in Requests :
          (Done(r1) /\ Done(r2) /\ Failed(r1) /\ Failed(r2) /\ route[r1] = route[r2])
              => responses[r1] = responses[r2]

\* Two requests of one endpoint failed for different reasons.
C3_Witness ==
    \E r1, r2 \in Requests :
        /\ Done(r1) /\ Done(r2) /\ Failed(r1) /\ Failed(r2)
        /\ route[r1] = route[r2]
        /\ Cause(r1) # Cause(r2)
        /\ log[r1] # log[r2]

----------------------------------------------------------------------------
(* C4 *)

\* The POST calls issued so far.
PostCalls == SelectSeq(upstreamCalls, LAMBDA c : c.method = "POST")

\* inlineData is given as bytes: a string or an array of numbers.
InlineDataPresent(data) == data.inlineData.t \in {"string", "array"}

\* C4: a request whose inlineData is present, an empty payload included, is
\* sent as one content block of exactly two parts: the prompt as text, then
\* the mime type with the base64 encoding of the bytes.
C4_InlineDataSendsTwoParts ==
    \A i \in 1..Len(PostCalls) :
        LET c == PostCalls[i]
            data == body[c.by]
        IN InlineDataPresent(data) =>
              c.contents =
                 << [parts |-> <<TextPart(ResolvePrompt(data)),
                                 InlinePart(ResolveMimeType(data),
                                            Base64(BufferFrom(data.inlineData)))>>] >>

----------------------------------------------------------------------------
(* C5 *)

\* C5: every upstream generation call carries one content block whose first
\* part is a text part, and a request without inlineData carries no other
\* part.
C5_TextPartOnly ==
    \A i \in 1..Len(PostCalls) :
        LET c == PostCalls[i]
            data == body[c.by]
        IN /\ Len(c.contents) = 1
           /\ Len(c.contents[1].parts) >= 1
           /\ c.contents[1].parts[1].text.t = "string"
           /\ ~c.contents[1].parts[1].inline_data.present
           /\ data.inlineData = Undefined => Len(c.contents[1].parts) = 1

\* A request without inlineData, with a prompt of its own, was sent upstream.
C5_Witness ==
    \E i \in 1..Len(PostCalls) :
        /\ body[PostCalls[i].by].inlineData = Undefined
        /\ body[PostCalls[i].by].prompt = STR_HELLO

----------------------------------------------------------------------------
(* C6 *)

\* s without pat when s starts with pat, s otherwise.
StripLeading(s, pat) ==
    IF Len(s) >= Len(pat) /\ SubSeq(s, 1, Len(pat)) = pat
    THEN SubSeq(s, Len(pat) + 1, Len(s))
    ELSE s

\* Request r listed the models and was answered 200.
ListedModels(r) == Done(r) /\ route[r] = "models" /\ responses[r][1].status = 200

\* C6: the names answered are the upstream names, in order, each without
\* its leading "models/" and otherwise untouched.
C6_StripsLeadingPrefixOnly ==
    \A r \in Requests :
        ListedModels(r) =>
            LET items == inflight[r].data.models.items
                names == responses[r][1].body.names
            IN /\ Len(names) = Len(items)
               /\ \A i \in 1..Len(items) : names[i] = StripLeading(items[i].name.s, MODELS_PREFIX)

----------------------------------------------------------------------------
(* C7 *)

\* Request r asked for a completion and was answered 200.
Completed(r) == Done(r) /\ route[r] = "chat" /\ responses[r][1].status = 200

\* The texts of the parts that have one, in order.
RECURSIVE TextsOf(_)
TextsOf(parts) ==
    IF parts = <<>> THEN <<>>
    ELSE IF Head(parts).text = Undefined THEN TextsOf(Tail(parts))
    ELSE <<Head(parts).text.s>> \o TextsOf(Tail(parts))

\* The concatenation of a sequence of strings, built from the right.
RECURSIVE Concat(_)
Concat(strs) ==
    IF strs = <<>> THEN <<>>
    ELSE Concat(SubSeq(strs, 1, Len(strs) - 1)) \o strs[Len(strs)]

\* "stop" for "STOP" and "max_tokens" for "MAX_TOKENS".
LowerCased(reason) ==
    IF reason = <<83, 84, 79, 80>> THEN <<115, 116, 111, 112>>
    ELSE IF reason = <<77, 65, 88, 95, 84, 79, 75, 69, 78, 83>>
    THEN <<109, 97, 120, 95, 116, 111, 107, 101, 110, 115>>
    ELSE reason

\* C7: a successful completion has one choice per upstream candidate, in
\* order, numbered from 0, whose content is the candidate's texts run
\* together and whose finish reason is the candidate's in lower case.
C7_ChoicesMirrorCandidates ==
    \A r \in Requests :
        Completed(r) =>
            LET candidates == inflight[r].data.candidates.items
                choices == responses[r][1].body.completion.choices
            IN /\ Len(choices) = Len(candidates)
               /\ \A i \in 1..Len(candidates) :
                     /\ choices[i].index = i - 1
                     /\ choices[i].message.content = Concat(TextsOf(candidates[i].content.parts))
                     /\ choices[i].finish_reason = LowerCased(candidates[i].finishReason.s)

\* A completion of two candidates, one of them with a part without text
\* between two texts.
C7_Witness ==
    \E r \in Requests :
        /\ Completed(r)
        /\ Len(inflight[r].data.candidates.items) = 2
        /\ \E i \in 1..2 :
              inflight[r].data.candidates.items[i].content.parts
                  = <<PART_HEL, PART_NO_TEXT, PART_LO>>
        /\ \E i \in 1..2 :
              responses[r][1].body.completion.choices[i].finish_reason
                  = <<109, 97, 120, 95, 116, 111, 107, 101, 110, 115>>

----------------------------------------------------------------------------
(* C8 *)

\* The field is not given.
Absent(v) == v \in {Undefined, Null}

\* The field is not given, or given as the empty string.
AbsentOrEmpty(v) == v \in {Undefined, Null, STR_EMPTY}

\* C8 as stated: a default is used only for a field that is absent, and a
\* field that is given is sent as given.
C8_DefaultsOnlyWhenAbsent ==
    \A i \in 1..Len(PostCalls) :
        LET c == PostCalls[i]
            data == body[c.by]
            parts == c.contents[1].parts
        IN /\ c.model = (IF Absent(data.model) THEN Str(DEFAULT_MODEL) ELSE data.model)
           /\ parts[1].text = (IF Absent(data.prompt) THEN Str(DEFAULT_PROMPT) ELSE data.prompt)
           /\ Len(parts) = 2 =>
                 parts[2].inline_data.mime_type =
                    (IF Absent(data.mimeType) THEN Str(DEFAULT_MIME_TYPE) ELSE data.mimeType)

\* C8 as amended: a default is used for a field that is absent, null or the
\* empty string, every other given value is sent unchanged; {prompt: "Hello"}
\* is sent as model "gemini-1.5-flash" with the single text part "Hello";
\* and the model of a completion is the model that was called.
C8_DefaultsWhenAbsentOrEmpty ==
    \A i \in 1..Len(PostCalls) :
        LET c == PostCalls[i]
            data == body[c.by]
            parts == c.contents[1].parts
        IN /\ c.model = (IF AbsentOrEmpty(data.model) THEN Str(DEFAULT_MODEL) ELSE data.model)
           /\ parts[1].text =
                 (IF AbsentOrEmpty(data.prompt) THEN Str(DEFAULT_PROMPT) ELSE data.prompt)
           /\ Len(parts) = 2 =>
                 parts[2].inline_data.mime_type =
                    (IF AbsentOrEmpty(data.mimeType) THEN Str(DEFAULT_MIME_TYPE)
                     ELSE data.mimeType)
           /\ data = HelloBody =>
                 /\ c.model = Str(DEFAULT_MODEL)
                 /\ c.contents = << [parts |-> <<TextPart(STR_HELLO)>>] >>
           /\ Completed(c.by) => responses[c.by][1].body.completion.model = c.model

\* A completion of a request that gives a model, a mime type and inline
\* data, and an empty prompt.
C8_Witness ==
    \E r \in Requests :
        /\ Completed(r)
        /\ body[r] = [FullBody EXCEPT !.prompt = STR_EMPTY]
        /\ responses[r][1].body.completion.model = STR_GEMINI_PRO

----------------------------------------------------------------------------
(* C9 *)

\* C9 as stated: with a key, every handled request has issued exactly one
\* upstream call, and there are as many calls as handled requests.
C9_OneCallPerRequest ==
    GOOGLE_API_KEY # <<>> =>
        /\ \A r \in Requests : Handled(r) => Len(CallsBy(r)) = 1
        /\ Len(upstreamCalls) = Cardinality({r \in Requests : Handled(r)})

\* C9 as amended: with a key, a handled request has issued exactly one
\* upstream call, before it is answered and without a retry, unless its
\* body could not be turned into an upstream request, and then it has
\* issued none; there are as many calls as handled requests that could be
\* built.
C9_OneCallPerBuiltRequest ==
    GOOGLE_API_KEY # <<>> =>
        /\ \A r \in Requests :
              Len(CallsBy(r)) = (IF Handled(r) /\ ~Unbuildable(r) THEN 1 ELSE 0)
        /\ Len(upstreamCalls) =
              Cardinality({r \in Requests : Handled(r) /\ ~Unbuildable(r)})

\* Two requests with the same body were answered, one after a rejected
\* call, and two calls were issued.
C9_Witness ==
    \E r1, r2 \in Requests :
        /\ r1 # r2
        /\ Done(r1) /\ Done(r2)
        /\ body[r1] = HelloBody /\ body[r2] = HelloBody
        /\ route[r1] = "chat" /\ route[r2] = "chat"
        /\ inflight[r1].kind = "rejected"
        /\ Len(CallsBy(r1)) = 1 /\ Len(CallsBy(r2)) = 1

----------------------------------------------------------------------------
(* C10 *)

\* A response without the id and the time of the call.
Erased(resp) ==
    IF resp.body.type = "completion"
    THEN [resp EXCEPT !.body.completion.id = <<>>, !.body.completion.created = 0]
    ELSE resp

\* A step leaves the key alone, and leaves alone everything of every
\* request other than the one that takes the step.
C10_Step ==
    /\ GOOGLE_API_KEY' = GOOGLE_API_KEY
    /\ \A q \in Requests :
          pc'[q] = pc[q] =>
              /\ route'[q] = route[q]
              /\ body'[q] = body[q]
              /\ locals'[q] = locals[q]
              /\ inflight'[q] = inflight[q]
              /\ responses'[q] = responses[q]
              /\ log'[q] = log[q]

\* Requests with the same body are sent upstream alike, and requests with
\* the same body and the same upstream result are answered alike.
C10_OwnInputsOnly ==
    /\ \A i, j \in 1..Len(PostCalls) :
          body[PostCalls[i].by] = body[PostCalls[j].by] =>
              /\ PostCalls[i].contents = PostCalls[j].contents
              /\ PostCalls[i].model = PostCalls[j].model
    /\ \A r1, r2 \in Requests :
          (/\ Done(r1) /\ Done(r2)
           /\ route[r1] = route[r2]
           /\ body[r1] = body[r2]
           /\ inflight[r1] = inflight[r2])
              => Erased(responses[r1][1]) = Erased(responses[r2][1])

\* C10: no step of request handling writes the API key or the state of
\* another request, and the response to a request depends on its own body
\* and its own upstream result only, apart from the id and the time.
C10_NoSharedState == [][C10_Step]_vars /\ []C10_OwnInputsOnly

\* Two requests with the same body and the same upstream result were
\* answered 200 while the key stayed in place.
C10_Witness ==
    \E r1, r2 \in Requests :
        /\ r1 # r2
        /\ Completed(r1) /\ Completed(r2)
        /\ body[r1] = body[r2]
        /\ inflight[r1] = inflight[r2]
        /\ responses[r1][1].body.completion.id # responses[r2][1].body.completion.id
        /\ GOOGLE_API_KEY # <<>>

====
